---- MODULE Spec2Model ----
(***************************************************************************)
(* Iris voice interview agent: the backend client (context cache,          *)
(* transcript store), the room-name resolver, the prompt composition of    *)
(* InterviewerAgent and the session handler interview_agent with its       *)
(* detached transcript writes.                                             *)
(*                                                                         *)
(* Text is a sequence of tokens: room names, ids, contents and JSON        *)
(* strings are sequences of one-character strings; the two prompt literals *)
(* are sequences of their lines.  Python's None is the record None, an     *)
(* Optional value is [some, v].                                            *)
(***************************************************************************)
EXTENDS Integers, Sequences, FiniteSets, TLC

VARIABLES
    cache,             \* BackendClient._context_cache: id -> cached value
    sess,              \* per session: position and locals of interview_agent
    tasks,             \* per session: the write tasks created by the turn handler
    background_tasks,  \* per session: the set background_tasks (task indices)
    succ,              \* per id: the first context a call returned since the last clear
    callPc, callArg, callRes   \* harness of the pure-function specifications

vars == <<cache, sess, tasks, background_tasks, succ, callPc, callArg, callRes>>

\* ---------------------------------------------------------------- bounds
NSessions == 2
MaxTurns == 2
MaxChunks == 3

Sessions == 1..NSessions

\* ---------------------------------------------------------------- text
Prefix == <<"i","n","t","e","r","v","i","e","w","-">>
ErrorKey == <<"e","r","r","o","r">>
SystemPromptKey == <<"s","y","s","t","e","m","P","r","o","m","p","t">>

StartsWith(s, p) == Len(s) >= Len(p) /\ SubSeq(s, 1, Len(p)) = p

\* s without its first n tokens
Drop(s, n) == SubSeq(s, n + 1, Len(s))

\* Python's `sub in s` on strings
Contains(s, sub) ==
    \E i \in 0..(Len(s) - Len(sub)) : SubSeq(s, i + 1, i + Len(sub)) = sub

\* Python's str.replace(old, new): every non-overlapping occurrence, left to right
RECURSIVE Replace(_, _, _)
Replace(s, old, new) ==
    IF Len(s) < Len(old) THEN s
    ELSE IF StartsWith(s, old) THEN new \o Replace(Drop(s, Len(old)), old, new)
    ELSE <<Head(s)>> \o Replace(Tail(s), old, new)

\* ---------------------------------------------------------------- Optional[str]
None == [some |-> FALSE, v |-> <<>>]
Some(x) == [some |-> TRUE, v |-> x]
\* `is not None`
NotNone(o) == o.some

\* Python truthiness of an Optional[str]
TruthyStr(o) == o.some /\ o.v # <<>>

\* ---------------------------------------------------------------- resolver
ReplaceWithoutCheck(room_name) == Some(Replace(room_name, Prefix, <<>>))

extract_interview_id(room_name) ==
    IF StartsWith(room_name, Prefix)
    THEN Some(Replace(room_name, Prefix, <<>>))
    ELSE None

\* ---------------------------------------------------------------- JSON values
\* A leaf is a JSON value seen only by its kind k (absent = key missing) and,
\* for a string or a number, its text s.
Leaf(k, s) == [k |-> k, s |-> s]
Absent == Leaf("absent", <<>>)
JStr(s) == Leaf("str", s)
JNum(s) == Leaf("num", s)
JNull == Leaf("null", <<>>)
JDict == Leaf("dict", <<>>)

\* A value is a JSON value one level deeper: an object with the keys the
\* program reads (error, problemSnapshot, systemPrompt, status), a list of
\* leaves, or a scalar.
Obj(e, ps, sp, st) ==
    [k |-> "dict", s |-> <<>>, items |-> <<>>,
     error |-> e, problemSnapshot |-> ps, systemPrompt |-> sp, status |-> st]
Arr(items) ==
    [k |-> "list", s |-> <<>>, items |-> items,
     error |-> Absent, problemSnapshot |-> Absent, systemPrompt |-> Absent,
     status |-> Absent]
Scalar(k, s) ==
    [k |-> k, s |-> s, items |-> <<>>,
     error |-> Absent, problemSnapshot |-> Absent, systemPrompt |-> Absent,
     status |-> Absent]

\* Optional[value]
NoContext == [some |-> FALSE, v |-> Scalar("null", <<>>)]
SomeV(v) == [some |-> TRUE, v |-> v]

\* Python truthiness of a JSON value
Truthy(v) ==
    CASE v.k = "dict" -> \/ v.error.k # "absent"
                         \/ v.problemSnapshot.k # "absent"
                         \/ v.systemPrompt.k # "absent"
                         \/ v.status.k # "absent"
      [] v.k = "list" -> v.items # <<>>
      [] v.k = "str" -> v.s # <<>>
      [] v.k = "num" -> v.s # <<"0">>
      [] OTHER -> FALSE

\* `key in v` raises TypeError unless v is a dict, a list or a string
PyInRaises(v) == v.k \notin {"dict", "list", "str"}

\* `key in v` for key "error" or "systemPrompt"
PyIn(key, v) ==
    CASE v.k = "dict" -> IF key = ErrorKey THEN v.error.k # "absent"
                         ELSE IF key = SystemPromptKey THEN v.systemPrompt.k # "absent"
                         ELSE FALSE
      [] v.k = "list" -> \E i \in 1..Len(v.items) : v.items[i] = JStr(key)
      [] v.k = "str" -> Contains(v.s, key)
      [] OTHER -> FALSE

\* v.get('problemSnapshot', {}).get('title', 'Unknown') raises AttributeError
\* unless v is a dict whose problemSnapshot is missing or a dict
TitleRaises(v) ==
    \/ v.k # "dict"
    \/ v.problemSnapshot.k \notin {"absent", "dict"}

\* ---------------------------------------------------------------- HTTP outcomes
Response(status, json, wrapped, body) ==
    [kind |-> "response", status |-> status, json |-> json, wrapped |-> wrapped,
     body |-> body]
Timeout == [kind |-> "timeout", status |-> 0, json |-> FALSE, wrapped |-> FALSE,
            body |-> Scalar("null", <<>>)]
TransportError == [kind |-> "error", status |-> 0, json |-> FALSE, wrapped |-> FALSE,
                   body |-> Scalar("null", <<>>)]

\* ---------------------------------------------------------------- get_interview_context
Nothing == [stored |-> NoContext, ret |-> NoContext]

\* What the code after `await client.get` stores in the cache and returns.
\* wrapped: the body is {"data": body}; otherwise the body is the document.
ContextFromResponse(resp) ==
    IF resp.kind # "response" THEN Nothing                  \* except Exception
    ELSE IF resp.status # 200 THEN Nothing
    ELSE IF ~resp.json THEN Nothing                         \* response.json() raises
    ELSE IF ~resp.wrapped /\ resp.body.k # "dict" THEN Nothing  \* raw_response.get raises
    ELSE LET data == resp.body IN
         IF PyInRaises(data) THEN Nothing                   \* "error" not in data raises
         ELSE IF PyIn(ErrorKey, data) THEN Nothing
         ELSE [stored |-> SomeV(data),
               ret |-> IF TitleRaises(data) THEN NoContext ELSE SomeV(data)]

EmptyCache == [i \in {} |-> NoContext.v]
CachePut(c, id, v) == [i \in DOMAIN c \cup {id} |-> IF i = id THEN v ELSE c[i]]
CacheDrop(c, ids) == [i \in DOMAIN c \ ids |-> c[i]]

LookupNeverHits(c, interview_id) == FALSE

\* `if interview_id in self._context_cache`
CacheLookup(c, interview_id) == interview_id \in DOMAIN c

\* One whole call on cache c whose GET, if one is made, ends with resp:
\* the cache afterwards, the value returned and the number of GETs issued
get_interview_context(c, interview_id, resp) ==
    IF CacheLookup(c, interview_id)
    THEN [cache |-> c, ret |-> SomeV(c[interview_id]), gets |-> 0]
    ELSE LET r == ContextFromResponse(resp) IN
         [cache |-> IF r.stored.some THEN CachePut(c, interview_id, r.stored.v) ELSE c,
          ret |-> r.ret, gets |-> 1]

\* ---------------------------------------------------------------- clear_cache
clear_cache(c, interview_id) ==
    IF TruthyStr(interview_id) THEN CacheDrop(c, {interview_id.v})
    ELSE CacheDrop(c, DOMAIN c)

\* ---------------------------------------------------------------- store_transcript
\* What store_transcript does with the outcome of its one POST: ok is the value
\* returned, raised says that an exception left the function instead.
StoreResult(raised, ok) == [raised |-> raised, ok |-> ok]

SuccessOnly200(interview_id, role, content, outcome) ==
    StoreResult(FALSE, outcome.kind = "response" /\ outcome.status = 200)

store_transcript(interview_id, role, content, outcome) ==
    IF outcome.kind # "response" THEN StoreResult(FALSE, FALSE)   \* except Exception
    ELSE StoreResult(FALSE, outcome.status = 200 \/ outcome.status = 201)

\* ---------------------------------------------------------------- InterviewerAgent
DEFAULT_INTERVIEW_PROMPT == <<
    "You are a senior software engineer conducting a coding interview.",
    "",
    "Your role:",
    "- Guide the candidate through the problem",
    "- Ask clarifying questions to understand their approach",
    "- Provide hints when they're stuck (but don't give away the solution)",
    "- Evaluate their communication and problem-solving process",
    "",
    "Rules:",
    "- Be encouraging but professional",
    "- Focus on understanding their thought process",
    "- If they ask for help, give progressive hints",
    "- Keep responses concise and conversational",
    "- Remember this is a VOICE conversation, so speak naturally",
    "- Avoid complex formatting, code blocks, or special characters" >>

VOICE_ADAPTATION_PROMPT == <<
    "",
    "IMPORTANT - Voice Interview Guidelines:",
    "- You are speaking, not writing. Keep responses SHORT and conversational.",
    "- Avoid saying code syntax literally (don't say \"curly brace\" or \"semicolon\")",
    "- When discussing code, describe the logic conceptually",
    "- Use natural pauses and transitions",
    "- If the candidate shares code, summarize what you see rather than reading it",
    "- Ask one question at a time",
    "- Be encouraging when they make progress" >>

NoAgent == [built |-> FALSE, raised |-> FALSE, interview_id |-> None,
            instructions |-> <<>>]
AgentRaised == [built |-> FALSE, raised |-> TRUE, interview_id |-> None,
                instructions |-> <<>>]
Agent(id, text) == [built |-> TRUE, raised |-> FALSE, interview_id |-> id,
                    instructions |-> text]

\* the test `interview_context and "systemPrompt" in interview_context`
PromptByTruthiness(ctx) ==
    /\ ctx.some /\ Truthy(ctx.v) /\ PyIn(SystemPromptKey, ctx.v)
    /\ ~(ctx.v.k = "dict" /\ ctx.v.systemPrompt = JStr(<<>>))

UsesSystemPrompt(ctx) == ctx.some /\ Truthy(ctx.v) /\ PyIn(SystemPromptKey, ctx.v)

\* InterviewerAgent.__init__: the agent, or AgentRaised when a TypeError escapes
InterviewerAgent(interview_context, interview_id) ==
    IF interview_context.some /\ Truthy(interview_context.v)
       /\ PyInRaises(interview_context.v)
    THEN AgentRaised
    ELSE IF UsesSystemPrompt(interview_context)
    THEN IF interview_context.v.k # "dict" THEN AgentRaised   \* str/list index by key
         ELSE IF interview_context.v.systemPrompt.k # "str" THEN AgentRaised  \* x + str
         ELSE Agent(interview_id,
                    interview_context.v.systemPrompt.s \o VOICE_ADAPTATION_PROMPT)
    ELSE Agent(interview_id, DEFAULT_INTERVIEW_PROMPT \o VOICE_ADAPTATION_PROMPT)

\* ---------------------------------------------------------------- inputs
Lobby == <<"l","o","b","b","y">>
RoomNames ==
    { Lobby,
      Prefix,
      Prefix \o <<"a">>,
      Prefix \o Prefix \o <<"a">> }

\* the ids the resolver can hand to the client
Ids == { extract_interview_id(r).v : r \in RoomNames }

PromptX == <<"X">>
PromptY == <<"Y">>
CtxX == Obj(Absent, JDict, JStr(PromptX), JStr(<<"o","k">>))
CtxY == Obj(Absent, Absent, JStr(PromptY), Absent)
CtxBadSnapshot == Obj(Absent, JStr(<<"t">>), JStr(PromptX), Absent)
CtxBadPrompt == Obj(Absent, Absent, JNum(<<"5">>), Absent)

\* the outcomes of the GET the sessions see
GetOutcomes ==
    { Response(500, TRUE, FALSE, Obj(Absent, Absent, Absent, Absent)),
      Timeout,
      Response(200, TRUE, TRUE, CtxX),
      Response(200, TRUE, FALSE, CtxY),
      Response(200, TRUE, TRUE, CtxBadSnapshot),
      Response(200, TRUE, TRUE, CtxBadPrompt) }

\* the outcomes of the POST
PostOutcomes ==
    { Response(200, TRUE, FALSE, Obj(Absent, Absent, Absent, Absent)),
      Response(201, TRUE, FALSE, Obj(Absent, Absent, Absent, Absent)),
      Response(204, FALSE, FALSE, Scalar("null", <<>>)),
      Response(500, FALSE, FALSE, Scalar("null", <<>>)),
      Timeout,
      TransportError }

\* ---------------------------------------------------------------- committed items
StrContent(s) == [k |-> "str", s |-> s, parts |-> <<>>]
ListContent(parts) == [k |-> "list", s |-> <<>>, parts |-> parts]
Part(k, s) == [k |-> k, s |-> s]   \* k: "text" (has .text), "str", "other"
Item(hasRole, hasContent, role, content) ==
    [hasRole |-> hasRole, hasContent |-> hasContent, role |-> role,
     content |-> content]

Hello == <<"h","i">>
Items ==
    { Item(TRUE, TRUE, "user", StrContent(Hello)),
      Item(TRUE, TRUE, "assistant",
           ListContent(<<Part("text", <<"o">>), Part("other", <<>>), Part("str", <<"k">>)>>)),
      Item(TRUE, TRUE, "user", StrContent(<<>>)) }

\* only parts with a text attribute are read
RECURSIVE TextAttributeOnly(_)
TextAttributeOnly(parts) ==
    IF parts = <<>> THEN <<>>
    ELSE (IF Head(parts).k = "text" THEN Head(parts).s ELSE <<>>)
         \o TextAttributeOnly(Tail(parts))

\* the loop over item.content of on_conversation_item_added
RECURSIVE FlattenParts(_)
FlattenParts(parts) ==
    IF parts = <<>> THEN <<>>
    ELSE (IF Head(parts).k \in {"text", "str"} THEN Head(parts).s ELSE <<>>)
         \o FlattenParts(Tail(parts))

Flatten(content) ==
    CASE content.k = "str" -> content.s
      [] content.k = "list" -> FlattenParts(content.parts)
      [] OTHER -> <<>>

RoleAsGiven(item) == item.role

ItemRole(item) == IF item.role = "user" THEN "user" ELSE "assistant"

DispatchesAnyContent(interview_id, item) ==
    /\ TruthyStr(interview_id)
    /\ item.hasRole /\ item.hasContent

\* on_conversation_item_added creates a task
Dispatches(interview_id, item) ==
    /\ TruthyStr(interview_id)
    /\ item.hasRole /\ item.hasContent
    /\ Flatten(item.content) # <<>>

\* store_transcript_callback: the guard `if interview_id and content`
CallbackStores(interview_id, content) == interview_id # <<>> /\ content # <<>>

\* store_transcript_callback after store_transcript returned: it logs and ends
RetryOnFailure(success) == IF success THEN "done" ELSE "created"

CallbackNext(success) == "done"

\* ---------------------------------------------------------------- sessions
NoArgs == [interview_id |-> <<>>, role |-> "", content |-> <<>>]

IdleSession ==
    [pc |-> "idle", room |-> <<>>, interview_id |-> None,
     interview_context |-> NoContext, agent |-> NoAgent,
     gets |-> 0]

\* interview_agent from the return of get_interview_context to session.start:
\* the log line of the truthy branch, then InterviewerAgent(...)
AfterContext(sr, ctx) ==
    LET ag == InterviewerAgent(ctx, sr.interview_id) IN
    IF ctx.some /\ Truthy(ctx.v) /\ TitleRaises(ctx.v)
    THEN [sr EXCEPT !.pc = "crashed", !.interview_context = ctx]
    ELSE IF ag.raised
    THEN [sr EXCEPT !.pc = "crashed", !.interview_context = ctx]
    ELSE [sr EXCEPT !.pc = "active", !.interview_context = ctx, !.agent = ag]

\* the first context returned for an id since the last clear_cache
SuccAfter(id, ret) ==
    IF ret.some /\ ~succ[id].some THEN [succ EXCEPT ![id] = ret] ELSE succ

TotalTurns == LET RECURSIVE Sum(_)
                  Sum(n) == IF n = 0 THEN 0 ELSE Len(tasks[n]) + Sum(n - 1)
              IN Sum(NSessions)

Init ==
    /\ cache = EmptyCache
    /\ sess = [s \in Sessions |-> IdleSession]
    /\ tasks = [s \in Sessions |-> <<>>]
    /\ background_tasks = [s \in Sessions |-> {}]
    /\ succ = [i \in Ids |-> NoContext]
    /\ callPc = "off" /\ callArg = <<>> /\ callRes = <<>>

call == <<callPc, callArg, callRes>>

\* interview_agent up to its first suspension: the resolver, then the cache
\* lookup of get_interview_context (a hit returns without suspending)
Join(s, room) ==
    /\ sess[s].pc = "idle"
    /\ LET id == extract_interview_id(room)
           sr == [sess[s] EXCEPT !.room = room, !.interview_id = id]
       IN IF TruthyStr(id)
          THEN IF CacheLookup(cache, id.v)
               THEN LET ret == SomeV(cache[id.v]) IN
                    /\ sess' = [sess EXCEPT ![s] =
                          AfterContext(sr, ret)]
                    /\ succ' = SuccAfter(id.v, ret)
               ELSE /\ sess' = [sess EXCEPT ![s] =
                          [sr EXCEPT !.pc = "fetching", !.gets = @ + 1]]
                    /\ succ' = succ
          ELSE /\ sess' = [sess EXCEPT ![s] = AfterContext(sr, NoContext)]
               /\ succ' = succ
    /\ UNCHANGED <<cache, tasks, background_tasks, call>>

\* the GET of session s ends with outcome resp: the rest of get_interview_context,
\* then interview_agent up to session.start
FetchReturn(s, resp) ==
    /\ sess[s].pc = "fetching"
    /\ LET id == sess[s].interview_id.v
           r == ContextFromResponse(resp)
       IN /\ cache' = IF r.stored.some THEN CachePut(cache, id, r.stored.v) ELSE cache
          /\ sess' = [sess EXCEPT ![s] =
                AfterContext(sess[s], r.ret)]
          /\ succ' = SuccAfter(id, r.ret)
    /\ UNCHANGED <<tasks, background_tasks, call>>

ClearCache(interview_id) ==
    /\ cache' = clear_cache(cache, interview_id)
    /\ succ' = [i \in Ids |-> NoContext]
    /\ UNCHANGED <<sess, tasks, background_tasks, call>>

TrackNothing(bg, n) == bg

\* background_tasks.add(task)
TrackTask(bg, n) == bg \cup {n}

\* on_conversation_item_added for one committed item of session s
CommitTurn(s, item) ==
    /\ sess[s].pc = "active"
    /\ TotalTurns < MaxTurns
    /\ LET id == sess[s].interview_id
           go == Dispatches(id, item)
           t == [item |-> item,
                 st |-> IF go THEN "created" ELSE "none",
                 role |-> ItemRole(item),
                 content |-> Flatten(item.content),
                 calls |-> 0, posts |-> 0, args |-> NoArgs,
                 failed |-> FALSE, accepted |-> FALSE, raised |-> FALSE]
       IN /\ tasks' = [tasks EXCEPT ![s] = Append(@, t)]
          /\ background_tasks' =
                IF go THEN [background_tasks EXCEPT ![s] = TrackTask(@, Len(tasks[s]) + 1)]
                ELSE background_tasks
    /\ UNCHANGED <<cache, sess, succ, call>>

\* a loop that picks any ready task
StartsInAnyOrder(ts, n) == ts[n].st = "created"

\* asyncio.create_task schedules the first step of the task with call_soon,
\* and the loop runs ready callbacks in the order they were registered: a task
\* starts after the tasks created before it
MayStart(ts, n) ==
    /\ ts[n].st = "created"
    /\ \A m \in 1..(n - 1) : ts[m].st # "created"

\* the task starts: store_transcript_callback up to the POST of store_transcript
\* (nothing suspends between the start of the task and the call of client.post)
TaskRun(s, n) ==
    /\ n \in 1..Len(tasks[s])
    /\ MayStart(tasks[s], n)
    /\ LET t == tasks[s][n]
           id == sess[s].interview_id.v
       IN tasks' = [tasks EXCEPT ![s][n] =
             IF CallbackStores(id, t.content)
             THEN [t EXCEPT !.st = "posting", !.calls = @ + 1, !.posts = @ + 1,
                            !.args = [interview_id |-> id, role |-> t.role,
                                      content |-> t.content]]
             ELSE [t EXCEPT !.st = "done"]]
    /\ UNCHANGED <<cache, sess, background_tasks, succ, call>>

\* a write waits for every write dispatched before it
CompletesInOrder(ts, n) ==
    /\ ts[n].st = "posting"
    /\ \A m \in 1..(n - 1) : ts[m].st \in {"none", "done"}

\* asyncio.create_task(store_transcript_callback(...)): each task awaits only
\* its own POST
MayComplete(ts, n) == ts[n].st = "posting"

\* the POST ends with outcome: store_transcript returns, the callback logs
TaskReturn(s, n, outcome) ==
    /\ n \in 1..Len(tasks[s])
    /\ MayComplete(tasks[s], n)
    /\ LET a == tasks[s][n].args
           r == store_transcript(a.interview_id, a.role, a.content, outcome)
       IN tasks' = [tasks EXCEPT ![s][n] =
             [@ EXCEPT !.st = IF r.raised THEN "done" ELSE CallbackNext(r.ok),
                       !.failed = @ \/ ~r.ok,
                       !.accepted = @ \/ r.ok,
                       !.raised = r.raised]]
    /\ UNCHANGED <<cache, sess, background_tasks, succ, call>>

\* the done callback of the task: background_tasks.discard
Discard(s, n) ==
    /\ n \in background_tasks[s]
    /\ tasks[s][n].st = "done"
    /\ background_tasks' = [background_tasks EXCEPT ![s] = @ \ {n}]
    /\ UNCHANGED <<cache, sess, tasks, succ, call>>

\* the job of session s is over (its detached writes have finished): the process
\* takes the next room join as a new session
EndSession(s) ==
    /\ sess[s].pc \in {"active", "crashed"}
    /\ background_tasks[s] = {}
    /\ \A n \in 1..Len(tasks[s]) : tasks[s][n].st \in {"none", "done"}
    /\ sess' = [sess EXCEPT ![s] = IdleSession]
    /\ tasks' = [tasks EXCEPT ![s] = <<>>]
    /\ UNCHANGED <<cache, background_tasks, succ, call>>

ClearArgs == {None} \cup { Some(i) : i \in Ids }

Next ==
    \/ \E s \in Sessions, room \in RoomNames : Join(s, room)
    \/ \E s \in Sessions, resp \in GetOutcomes : FetchReturn(s, resp)
    \/ \E a \in ClearArgs : ClearCache(a)
    \/ \E s \in Sessions, item \in Items : CommitTurn(s, item)
    \/ \E s \in Sessions, n \in 1..MaxTurns : TaskRun(s, n)
    \/ \E s \in Sessions, n \in 1..MaxTurns, o \in PostOutcomes : TaskReturn(s, n, o)
    \/ \E s \in Sessions, n \in 1..MaxTurns : Discard(s, n)
    \/ \E s \in Sessions : EndSession(s)

Spec == Init /\ [][Next]_vars

\* ---------------------------------------------------------------- single calls
\* The specifications below make one call of one function on an input drawn
\* from a bounded set; the sessions stay idle.

Quiet ==
    /\ sess = [s \in Sessions |-> IdleSession]
    /\ tasks = [s \in Sessions |-> <<>>]
    /\ background_tasks = [s \in Sessions |-> {}]
    /\ succ = [i \in Ids |-> NoContext]

\* room names: up to MaxChunks pieces, each the prefix, a part of it or a letter
Chunks == { Prefix, <<"i","n","t","e","r">>, <<"-">>, <<"a">> }

RECURSIVE Concats(_)
Concats(n) ==
    IF n = 0 THEN { <<>> }
    ELSE LET prev == Concats(n - 1) IN prev \cup { p \o c : p \in prev, c \in Chunks }

RoomInputs == Concats(MaxChunks)

InitResolve ==
    /\ Quiet /\ cache = EmptyCache
    /\ callPc = "ready" /\ callArg \in RoomInputs /\ callRes = None

ResolveCall ==
    /\ callPc = "ready"
    /\ callRes' = extract_interview_id(callArg)
    /\ callPc' = "done"
    /\ UNCHANGED <<cache, sess, tasks, background_tasks, succ, callArg>>

SpecResolve == InitResolve /\ [][ResolveCall]_vars

\* contexts handed to InterviewerAgent
PromptTexts == { <<>>, PromptX, PromptY, PromptX \o PromptY, DEFAULT_INTERVIEW_PROMPT }
AgentContexts ==
    { NoContext }
    \cup { SomeV(Obj(Absent, ps, sp, st)) :
             ps \in { Absent, JDict, JStr(<<"t">>) },
             sp \in { Absent, JNum(<<"5">>), JNull } \cup { JStr(x) : x \in PromptTexts },
             st \in { Absent, JStr(<<"o","k">>) } }
    \cup { SomeV(Arr(<<>>)), SomeV(Arr(<<JStr(SystemPromptKey)>>)),
           SomeV(Scalar("str", <<>>)), SomeV(Scalar("str", SystemPromptKey)) }

InitCompose ==
    /\ Quiet /\ cache = EmptyCache
    /\ callPc = "ready"
    /\ callArg \in [ctx : AgentContexts, id : { None, Some(<<"a">>) }]
    /\ callRes = NoAgent

ComposeCall ==
    /\ callPc = "ready"
    /\ callRes' = InterviewerAgent(callArg.ctx, callArg.id)
    /\ callPc' = "done"
    /\ UNCHANGED <<cache, sess, tasks, background_tasks, succ, callArg>>

SpecCompose == InitCompose /\ [][ComposeCall]_vars

\* GET outcomes of every shape
Bodies ==
    { CtxX, CtxY, CtxBadSnapshot, CtxBadPrompt,
      Obj(Absent, Absent, Absent, Absent),
      Obj(JStr(<<"n","o">>), Absent, JStr(PromptX), Absent),
      Obj(Absent, JNull, Absent, JStr(<<"o","k">>)),
      Arr(<<>>), Arr(<<JNum(<<"5">>)>>), Arr(<<JStr(ErrorKey)>>),
      Scalar("str", <<"t">>), Scalar("str", <<"a">> \o ErrorKey),
      Scalar("num", <<"5">>), Scalar("null", <<>>) }

AllGetOutcomes ==
    { Timeout, TransportError,
      Response(404, TRUE, FALSE, Obj(JStr(<<"n","o">>), Absent, Absent, Absent)),
      Response(500, FALSE, FALSE, Scalar("null", <<>>)),
      Response(200, FALSE, FALSE, Scalar("null", <<>>)) }
    \cup { Response(200, TRUE, w, b) : w \in BOOLEAN, b \in Bodies }

FetchIds == { <<"a">>, <<"b">> }
Caches ==
    { EmptyCache,
      [i \in { <<"a">> } |-> CtxX],
      [i \in { <<"b">> } |-> CtxY] }

InitFetch ==
    /\ Quiet /\ cache \in Caches
    /\ callPc = "ready"
    /\ callArg \in [cache0 : {cache}, id : FetchIds, resp : AllGetOutcomes]
    /\ callRes = [ret |-> NoContext, gets |-> 0]

FetchCall ==
    /\ callPc = "ready"
    /\ LET r == get_interview_context(cache, callArg.id, callArg.resp) IN
       /\ cache' = r.cache
       /\ callRes' = [ret |-> r.ret, gets |-> r.gets]
    /\ callPc' = "done"
    /\ UNCHANGED <<sess, tasks, background_tasks, succ, callArg>>

SpecFetch == InitFetch /\ [][FetchCall]_vars

\* POST outcomes of every kind
AllPostOutcomes ==
    { Timeout, TransportError }
    \cup { Response(st, TRUE, FALSE, Obj(Absent, Absent, Absent, Absent)) :
             st \in { 200, 201, 202, 204, 301, 400, 404, 500 } }

InitStore ==
    /\ Quiet /\ cache = EmptyCache
    /\ callPc = "ready"
    /\ callArg \in [interview_id : FetchIds, role : { "user", "assistant" },
                    content : { Hello, <<>> }, outcome : AllPostOutcomes]
    /\ callRes = StoreResult(FALSE, FALSE)

StoreCall ==
    /\ callPc = "ready"
    /\ callRes' = store_transcript(callArg.interview_id, callArg.role,
                                   callArg.content, callArg.outcome)
    /\ callPc' = "done"
    /\ UNCHANGED <<cache, sess, tasks, background_tasks, succ, callArg>>

SpecStore == InitStore /\ [][StoreCall]_vars

\* ---------------------------------------------------------------- claims
\* the id a room named interview-<id> carries
Suffix(room) == Drop(room, Len(Prefix))

\* C1: a get_interview_context call that returns None leaves the cache as it
\* was, with no entry for the id (checked under SpecFetch).
C1_NoneLeavesCacheUnchanged ==
    (callPc = "done" /\ ~callRes.ret.some)
        => (cache = callArg.cache0 /\ callArg.id \notin DOMAIN cache)

\* C2: a call made for an id after a call for it returned a context, with no
\* clear_cache in between, issues no GET and returns that same context.
C2_LaterCallReturnsFirstObject ==
    [][\A s \in Sessions :
          ( /\ sess[s].pc = "idle" /\ sess'[s].pc # "idle"
            /\ TruthyStr(sess'[s].interview_id)
            /\ succ[sess'[s].interview_id.v].some )
          => ( /\ sess'[s].gets = 0
               /\ sess'[s].interview_context = succ[sess'[s].interview_id.v] )]_vars

\* C3: store_transcript returns true exactly for a response with status 200 or
\* 201, false for every other outcome, and no exception leaves it (SpecStore).
C3_TrueExactlyOn200Or201 ==
    callPc = "done"
        => /\ ~callRes.raised
           /\ callRes.ok = ( /\ callArg.outcome.kind = "response"
                             /\ callArg.outcome.status \in {200, 201} )

C3_Witness ==
    /\ callPc = "done"
    /\ callArg.outcome.kind = "response" /\ callArg.outcome.status = 201
    /\ callRes.ok

\* C4: no session setup ends with an exception leaving interview_agent: a
\* session that left Idle and ResolvingContext is Active with its agent built.
C4_NoFatalPath ==
    \A s \in Sessions :
        sess[s].pc \notin {"idle", "fetching"}
            => (sess[s].pc = "active" /\ sess[s].agent.built)

\* C5: in a room interview-<id> whose context fetch failed the session is
\* Active with the default instructions, and every committed user turn with
\* non-empty content c whose task has run made exactly one call
\* store_transcript(id, "user", c).
C5_FailedFetchStillStores ==
    \A s \in Sessions :
        ( /\ sess[s].pc \notin {"idle", "fetching"}
          /\ StartsWith(sess[s].room, Prefix)
          /\ sess[s].gets = 1 /\ ~sess[s].interview_context.some )
        => /\ sess[s].pc = "active"
           /\ sess[s].agent.instructions
                 = DEFAULT_INTERVIEW_PROMPT \o VOICE_ADAPTATION_PROMPT
           /\ \A n \in 1..Len(tasks[s]) :
                 ( /\ tasks[s][n].item.role = "user"
                   /\ Flatten(tasks[s][n].item.content) # <<>>
                   /\ tasks[s][n].st \in {"posting", "done"} )
                 => /\ tasks[s][n].calls = 1
                    /\ tasks[s][n].args =
                          [interview_id |-> Suffix(sess[s].room), role |-> "user",
                           content |-> Flatten(tasks[s][n].item.content)]

\* C6: a session whose room name does not start with interview- has no id,
\* issues no GET and, whatever turns are committed, no POST.
C6_NoPrefixNoBackendCall ==
    \A s \in Sessions :
        (sess[s].pc # "idle" /\ ~StartsWith(sess[s].room, Prefix))
        => /\ sess[s].interview_id = None
           /\ sess[s].pc # "fetching" /\ sess[s].gets = 0
           /\ \A n \in 1..Len(tasks[s]) :
                 /\ tasks[s][n].st = "none"
                 /\ tasks[s][n].calls = 0 /\ tasks[s][n].posts = 0

C6_Witness ==
    \E s \in Sessions :
        /\ sess[s].room = Lobby /\ sess[s].pc = "active"
        /\ Len(tasks[s]) >= 2
        /\ tasks[s][1].content = Hello

\* C7: extract_interview_id("interview-" + s) returns exactly s (SpecResolve).
C7_ReturnsExactSuffix ==
    (callPc = "done" /\ StartsWith(callArg, Prefix))
        => callRes = Some(Suffix(callArg))

\* C8 as claimed: a write that failed and was not accepted has another attempt
\* pending or in flight, so that the turn can still be accepted.
C8_AtLeastOnce ==
    \A s \in Sessions : \A n \in 1..Len(tasks[s]) :
        (tasks[s][n].failed /\ ~tasks[s][n].accepted)
            => tasks[s][n].st \in {"created", "posting"}

\* C8 as amended: a turn whose POST failed is finished after that one POST and
\* is never accepted, whatever the backend answers to later requests.
C8_FailedWriteIsDropped ==
    \A s \in Sessions : \A n \in 1..Len(tasks[s]) :
        tasks[s][n].failed
            => /\ tasks[s][n].st = "done"
               /\ ~tasks[s][n].accepted
               /\ tasks[s][n].posts = 1

C8_Witness ==
    \E s \in Sessions :
        /\ Len(tasks[s]) >= 2
        /\ tasks[s][1].failed /\ 1 \notin background_tasks[s]
        /\ tasks[s][2].accepted

\* C9: every committed turn has at most one store_transcript call and at most
\* one POST, one POST per call; a failed write is not issued again.
C9_AtMostOnePost ==
    \A s \in Sessions : \A n \in 1..Len(tasks[s]) :
        /\ tasks[s][n].posts <= 1
        /\ tasks[s][n].calls = tasks[s][n].posts

C9_Witness ==
    \E s \in Sessions : \E n \in 1..Len(tasks[s]) :
        /\ tasks[s][n].st = "done" /\ tasks[s][n].failed
        /\ tasks[s][n].posts = 1
        /\ n \notin background_tasks[s]

\* C10: built from a context whose systemPrompt is the string X the agent has
\* instructions X + VOICE_ADAPTATION_PROMPT; built with no context it has
\* DEFAULT_INTERVIEW_PROMPT + VOICE_ADAPTATION_PROMPT (SpecCompose).
C10_PromptComposition ==
    callPc = "done"
        => /\ ( /\ callArg.ctx.some /\ callArg.ctx.v.k = "dict"
                /\ callArg.ctx.v.systemPrompt.k = "str" )
              => /\ callRes.built
                 /\ callRes.instructions
                       = callArg.ctx.v.systemPrompt.s \o VOICE_ADAPTATION_PROMPT
           /\ ~callArg.ctx.some
              => /\ callRes.built
                 /\ callRes.instructions
                       = DEFAULT_INTERVIEW_PROMPT \o VOICE_ADAPTATION_PROMPT

C10_Witness ==
    /\ callPc = "done"
    /\ callArg.ctx.some /\ callArg.ctx.v.k = "dict"
    /\ callArg.ctx.v.systemPrompt = JStr(PromptX \o PromptY)
    /\ callRes.instructions = PromptX \o PromptY \o VOICE_ADAPTATION_PROMPT

\* C11: a present context that carries no non-empty systemPrompt (the key is
\* missing or its value is the empty string) gives the default instructions
\* (SpecCompose).
C11_NoPromptGivesDefault ==
    ( /\ callPc = "done"
      /\ callArg.ctx.some /\ callArg.ctx.v.k = "dict"
      /\ callArg.ctx.v.systemPrompt \in { Absent, JStr(<<>>) } )
    => /\ callRes.built
       /\ callRes.instructions = DEFAULT_INTERVIEW_PROMPT \o VOICE_ADAPTATION_PROMPT

\* ---------------------------------------------------------------- one clear_cache call
ClearIds == { <<>>, <<"a">>, <<"b">> }
ClearCaches ==
    UNION { [D -> { CtxX, CtxY }] : D \in SUBSET ClearIds }

InitClear ==
    /\ Quiet /\ cache \in ClearCaches
    /\ callPc = "ready"
    /\ callArg \in [cache0 : {cache}, id : {None} \cup { Some(i) : i \in ClearIds }]
    /\ callRes = None

ClearCall ==
    /\ callPc = "ready"
    /\ cache' = clear_cache(cache, callArg.id)
    /\ callRes' = None
    /\ callPc' = "done"
    /\ UNCHANGED <<sess, tasks, background_tasks, succ, callArg>>

SpecClear == InitClear /\ [][ClearCall]_vars

\* C12: clear_cache with an id, the empty string included, removes the entry
\* of that id and leaves every other entry as it was; with no id it removes
\* all entries (SpecClear).
C12_ClearRemovesExactlyThatEntry ==
    callPc = "done"
        => IF callArg.id.some
           THEN /\ DOMAIN cache = DOMAIN callArg.cache0 \ { callArg.id.v }
                /\ \A i \in DOMAIN cache : cache[i] = callArg.cache0[i]
           ELSE DOMAIN cache = {}

\* ---------------------------------------------------------------- provide_hint
\* A hint level is a string, written as a sequence of chunks; the three keys
\* of hint_guidance are the one-chunk strings below.
hint_guidance ==
    [k \in { <<"gentle">>, <<"moderate">>, <<"strong">> } |->
        CASE k = <<"gentle">>
                -> "Give a subtle nudge without revealing the solution approach"
          [] k = <<"moderate">>
                -> "Provide more specific guidance about the approach to consider"
          [] k = <<"strong">>
                -> "Give substantial help but still let them implement it"]

\* dict.get(key, default)
DictGet(d, key, default) == IF key \in DOMAIN d THEN d[key] ELSE default

HintReturn(text) == [raised |-> FALSE, text |-> text]
HintRaised == [raised |-> TRUE, text |-> <<>>]

\* hint_guidance[hint_level]: KeyError on a level that is not a key
HintByIndexing(hint_level) ==
    IF hint_level \in DOMAIN hint_guidance
    THEN HintReturn(<<"[Internal: ", hint_guidance[hint_level], "]">>)
    ELSE HintRaised

provide_hint(hint_level) ==
    LET guidance == DictGet(hint_guidance, hint_level, hint_guidance[<<"gentle">>])
    IN  HintReturn(<<"[Internal: ", guidance, "]">>)

HintChunks == { "gentle", "moderate", "strong", "x", " " }
HintLevels == UNION { [1..n -> HintChunks] : n \in 0..MaxChunks }

InitHint ==
    /\ Quiet /\ cache = EmptyCache
    /\ callPc = "ready"
    /\ callArg \in HintLevels
    /\ callRes = HintRaised

HintCall ==
    /\ callPc = "ready"
    /\ callRes' = provide_hint(callArg)
    /\ callPc' = "done"
    /\ UNCHANGED <<cache, sess, tasks, background_tasks, succ, callArg>>

SpecHint == InitHint /\ [][HintCall]_vars

GentleText ==
    <<"[Internal: ", "Give a subtle nudge without revealing the solution approach", "]">>
ModerateText ==
    <<"[Internal: ", "Provide more specific guidance about the approach to consider", "]">>
StrongText ==
    <<"[Internal: ", "Give substantial help but still let them implement it", "]">>

\* C13: provide_hint never fails and returns the gentle, moderate or strong
\* guidance text for the matching level and the gentle text for every other
\* level, and nothing else (SpecHint).
C13_HintIsOneOfThree ==
    callPc = "done"
        => /\ ~callRes.raised
           /\ callRes.text =
                 CASE callArg = <<"moderate">> -> ModerateText
                   [] callArg = <<"strong">> -> StrongText
                   [] OTHER -> GentleText

C13_Witness ==
    /\ callPc = "done"
    /\ callArg = <<"strong", " ", "x">>
    /\ callRes.text = GentleText

\* C14: once the cache holds an entry for an id, no step changes the value
\* stored under that id; the entry can only disappear, by clear_cache (Spec).
C14_CachedEntryNeverChanges ==
    [][\A i \in DOMAIN cache : i \in DOMAIN cache' => cache'[i] = cache[i]]_vars

\* C15: a get_interview_context call that finds a cache entry issues no GET
\* and returns at once; a call that finds none issues exactly one GET, its
\* own, whatever other callers for the same id are doing, and issues no
\* further GET when that one returns (Spec).
C15_OneGetPerMiss ==
    /\ [](\A s \in Sessions : sess[s].pc = "fetching" => sess[s].gets = 1)
    /\ [][\A s \in Sessions :
            /\ ( /\ sess[s].pc = "idle" /\ sess'[s].pc # "idle"
                 /\ TruthyStr(sess'[s].interview_id) )
               => IF sess'[s].interview_id.v \in DOMAIN cache
                  THEN sess'[s].gets = 0 /\ sess'[s].pc # "fetching"
                  ELSE sess'[s].gets = 1 /\ sess'[s].pc = "fetching"
            /\ sess[s].pc = "fetching" /\ sess'[s].pc # "idle"
               => sess'[s].gets = sess[s].gets]_vars

\* two callers for the same id have both missed the cache and each has its
\* own GET in flight
C15_Witness ==
    /\ \A s \in Sessions : sess[s].pc = "fetching" /\ sess[s].gets = 1
    /\ sess[1].interview_id = sess[2].interview_id

\* C16: no completion order is enforced across detached writes: a write whose
\* POST is in flight can complete whatever the state of the writes dispatched
\* before it, the oldest created task can start whatever POSTs are in flight,
\* and the handler takes the next committed turn without waiting for earlier
\* writes (Spec).
C16_NoCompletionOrder ==
    \A s \in Sessions :
        /\ \A n \in 1..Len(tasks[s]) :
              /\ tasks[s][n].st = "posting"
                 => ENABLED (\E o \in PostOutcomes : TaskReturn(s, n, o))
              /\ ( /\ tasks[s][n].st = "created"
                   /\ \A m \in 1..(n - 1) : tasks[s][m].st # "created" )
                 => ENABLED TaskRun(s, n)
        /\ (sess[s].pc = "active" /\ TotalTurns < MaxTurns)
              => ENABLED (\E item \in Items : CommitTurn(s, item))

\* turn 1 was committed before turn 2, the write of turn 2 has completed and
\* was accepted while the POST of turn 1 is still in flight
C16_Witness ==
    \E s \in Sessions :
        /\ Len(tasks[s]) = 2
        /\ tasks[s][1].st = "posting"
        /\ tasks[s][2].st = "done" /\ tasks[s][2].accepted

\* ---------------------------------------------------------------- scheduling
\* The event loop runs every task and every done callback that is ready, and
\* every POST returns or times out (the httpx client timeout).
FairSpec ==
    /\ Init /\ [][Next]_vars
    /\ \A s \in Sessions, n \in 1..MaxTurns :
          /\ WF_vars(TaskRun(s, n))
          /\ WF_vars(\E o \in PostOutcomes : TaskReturn(s, n, o))
          /\ WF_vars(Discard(s, n))

\* the writes of session s dispatched and not yet completed
InFlight(s) == { n \in 1..Len(tasks[s]) : tasks[s][n].st \in {"created", "posting"} }
\* the writes of session s that have completed
Completed(s) == { n \in 1..Len(tasks[s]) : tasks[s][n].st = "done" }

NoDispatch == [dispatched |-> FALSE, role |-> "", content |-> <<>>, stores |-> FALSE]

on_conversation_item_added(interview_id, item) ==
    IF Dispatches(interview_id, item)
    THEN LET content == Flatten(item.content) IN
         [dispatched |-> TRUE, role |-> ItemRole(item), content |-> content,
          stores |-> CallbackStores(interview_id.v, content)]
    ELSE NoDispatch

MaxParts == 3
OtherContent == [k |-> "other", s |-> <<>>, parts |-> <<>>]
PartInputs ==
    { Part("text", <<"o">>), Part("text", <<>>), Part("str", <<"k">>),
      Part("other", <<>>) }
ContentInputs ==
    { StrContent(Hello), StrContent(<<>>), OtherContent }
        \cup { ListContent(p) : p \in UNION { [1..n -> PartInputs] : n \in 0..MaxParts } }
RoleInputs == { "user", "assistant", "system", "developer" }
ItemInputs ==
    { Item(TRUE, TRUE, r, c) : r \in RoleInputs, c \in ContentInputs }
        \cup { Item(FALSE, FALSE, "", OtherContent),
               Item(TRUE, FALSE, "user", OtherContent),
               Item(FALSE, TRUE, "", StrContent(Hello)) }
HandlerIds == { None, Some(<<>>), Some(<<"a">>) }

InitHandler ==
    /\ Quiet /\ cache = EmptyCache
    /\ callPc = "ready"
    /\ callArg \in [interview_id : HandlerIds, item : ItemInputs]
    /\ callRes = NoDispatch

HandlerCall ==
    /\ callPc = "ready"
    /\ callRes' = on_conversation_item_added(callArg.interview_id, callArg.item)
    /\ callPc' = "done"
    /\ UNCHANGED <<cache, sess, tasks, background_tasks, succ, callArg>>

SpecHandler == InitHandler /\ [][HandlerCall]_vars

\* what one part contributes to the stored text
TextOf(part) == IF part.k \in {"text", "str"} THEN part.s ELSE <<>>

\* the texts of the first n parts, in sequence order
RECURSIVE ConcatUpTo(_, _)
ConcatUpTo(parts, n) ==
    IF n = 0 THEN <<>> ELSE ConcatUpTo(parts, n - 1) \o TextOf(parts[n])

\* the texts of the first n parts that carry a text attribute
RECURSIVE ConcatTextAttrUpTo(_, _)
ConcatTextAttrUpTo(parts, n) ==
    IF n = 0 THEN <<>>
    ELSE ConcatTextAttrUpTo(parts, n - 1)
            \o (IF parts[n].k = "text" THEN parts[n].s ELSE <<>>)

\* the text of a committed turn
TurnText(content) ==
    CASE content.k = "str" -> content.s
      [] content.k = "list" -> ConcatUpTo(content.parts, Len(content.parts))
      [] OTHER -> <<>>

IsTurn(item) == item.hasRole /\ item.hasContent

\* C18: a write is dispatched for a committed turn exactly when the interview
\* id is known (a non-empty string) and the turn's flattened content is
\* non-empty, and store_transcript is called exactly for the dispatched
\* writes; an item that is no turn (no role or no content attribute) causes
\* none (SpecHandler).
C18_DispatchIffIdAndContent ==
    callPc = "done"
        => /\ callRes.dispatched
                <=> /\ TruthyStr(callArg.interview_id)
                    /\ IsTurn(callArg.item)
                    /\ TurnText(callArg.item.content) # <<>>
           /\ callRes.stores <=> callRes.dispatched

\* a known id and a list of parts none of which has text: no write
C18_Witness ==
    /\ callPc = "done"
    /\ callArg.interview_id = Some(<<"a">>)
    /\ callArg.item.content =
          ListContent(<<Part("other", <<>>), Part("text", <<>>)>>)
    /\ ~callRes.dispatched /\ ~callRes.stores

\* C19 as stated: string content is stored unchanged, and for a sequence of
\* parts the stored content is the concatenation in order of the text of
\* exactly the parts that carry a text attribute (SpecHandler).
C19_OnlyTextAttributeParts ==
    (callPc = "done" /\ callRes.dispatched)
        => callRes.content =
              IF callArg.item.content.k = "str" THEN callArg.item.content.s
              ELSE ConcatTextAttrUpTo(callArg.item.content.parts,
                                      Len(callArg.item.content.parts))

\* C19: string content is stored unchanged, and for a sequence of parts the
\* stored content is the concatenation in order of the text of the parts that
\* carry a text attribute and of the parts that are themselves plain strings;
\* every other part contributes nothing (SpecHandler).
C19_TextAndStringParts ==
    (callPc = "done" /\ callRes.dispatched)
        => callRes.content = TurnText(callArg.item.content)

C19_Witness ==
    /\ callPc = "done" /\ callRes.dispatched
    /\ callArg.item.content =
          ListContent(<<Part("str", <<"k">>), Part("other", <<>>), Part("text", <<"o">>)>>)
    /\ callRes.content = <<"k", "o">>

\* C20: a dispatched write carries the role user exactly when the committed
\* item's role is user, and the role assistant for every other item role
\* (SpecHandler).
C20_RoleIsUserOrAssistant ==
    (callPc = "done" /\ callRes.dispatched)
        => /\ callRes.role \in {"user", "assistant"}
           /\ callRes.role = "user" <=> callArg.item.role = "user"

C20_Witness ==
    /\ callPc = "done" /\ callRes.dispatched
    /\ callArg.item.role = "system"
    /\ callRes.role = "assistant"

\* ---------------------------------------------------------------- guidance tools
summarize_progress ==
    <<"[Internal: Summarize what the candidate has accomplished and what's left]">>

request_code_review(focus_area) ==
    <<"[Internal: Ask candidate to explain their code focusing on ", focus_area, "]">>

\* the tool calls the language model makes on the agent of an active session
ToolCall(tool, arg) == [tool |-> tool, arg |-> arg]
ToolCalls ==
    { ToolCall("provide_hint", <<"moderate">>),
      ToolCall("provide_hint", <<"x">>),
      ToolCall("summarize_progress", <<>>),
      ToolCall("request_code_review", <<"logic">>) }

ToolReturn(c) ==
    CASE c.tool = "provide_hint" -> provide_hint(c.arg).text
      [] c.tool = "summarize_progress" -> summarize_progress
      [] c.tool = "request_code_review" -> request_code_review(c.arg)

\* a tool that stores its guidance as the agent's instructions
ToolSetsInstructions(agent, c) == [agent EXCEPT !.instructions = ToolReturn(c)]

\* the agent after a tool call: the three tools read self.interview_id for the
\* log line and assign nothing
AgentAfterTool(agent, c) == agent

\* one tool call on the agent of session s; callRes keeps what it returned
Guidance(s, c) ==
    /\ sess[s].pc = "active"
    /\ sess' = [sess EXCEPT ![s].agent = AgentAfterTool(@, c)]
    /\ callPc' = "tool"
    /\ callRes' = [tool |-> c.tool, ret |-> ToolReturn(c)]
    /\ UNCHANGED <<cache, tasks, background_tasks, succ, callArg>>

\* the sessions with the tool calls of the language model; the detached
\* writes stay unscheduled here (their steps are those of Spec)
NextTools ==
    \/ \E s \in Sessions, room \in RoomNames : Join(s, room)
    \/ \E s \in Sessions, resp \in GetOutcomes : FetchReturn(s, resp)
    \/ \E a \in ClearArgs : ClearCache(a)
    \/ \E s \in Sessions, item \in Items : CommitTurn(s, item)
    \/ \E s \in Sessions, c \in ToolCalls : Guidance(s, c)
    \/ \E s \in Sessions : EndSession(s)

SpecTools == Init /\ [][NextTools]_vars

\* the GETs and POSTs issued so far
BackendCalls ==
    [s \in Sessions |->
        <<sess[s].gets, [n \in 1..Len(tasks[s]) |-> tasks[s][n].posts]>>]

\* C21: the agent of a session is the one built from the context and the id
\* the session resolved, and no later step of the session or of another
\* session (committed turn, tool call, clear_cache, context fetch) changes its
\* instructions or its interview_id; a tool call also leaves the cache as it
\* was and issues no GET and no POST (SpecTools).
C21_AgentImmutable ==
    /\ [](\A s \in Sessions : sess[s].pc = "active" =>
            sess[s].agent =
               InterviewerAgent(sess[s].interview_context, sess[s].interview_id))
    /\ [][ /\ \A s \in Sessions :
                (sess[s].agent.built /\ sess'[s].pc # "idle")
                    => sess'[s].agent = sess[s].agent
           /\ (callPc' = "tool" /\ (callPc = "off" \/ callRes' # callRes))
                    => /\ cache' = cache
                       /\ BackendCalls' = BackendCalls
                       /\ tasks' = tasks
         ]_vars

\* session 1 was built from context X, a turn was committed, a tool was
\* called, and the cache entry it was built from has since been replaced by
\* another session's fetch: the agent still carries the prompt of X
C21_Witness ==
    /\ sess[1].pc = "active"
    /\ sess[1].agent.instructions = PromptX \o VOICE_ADAPTATION_PROMPT
    /\ Len(tasks[1]) > 0
    /\ callPc = "tool" /\ callRes.tool = "request_code_review"
    /\ <<"a">> \in DOMAIN cache /\ cache[<<"a">>] = CtxY

\* C22: writes are dispatched in commit order: the task of a turn is created
\* in the handler run that commits the turn and never later, and of two
\* qualifying turns of one session the later one has its POST initiated (the
\* call of client.post) only after the earlier one has (Spec).
C22_DispatchInCommitOrder ==
    /\ [](\A s \in Sessions : \A m, n \in 1..Len(tasks[s]) :
            ( /\ m < n
              /\ tasks[s][m].st # "none" /\ tasks[s][n].st # "none"
              /\ tasks[s][n].posts > 0 )
            => tasks[s][m].posts > 0)
    /\ [][\A s \in Sessions : \A n \in 1..Len(tasks[s]) :
            (tasks[s][n].st = "none" /\ Len(tasks'[s]) >= n)
                => tasks'[s][n].st = "none"]_vars

\* two qualifying turns of one session: the POST of the first is in flight,
\* the task of the second is created and has not started
C22_Witness ==
    \E s \in Sessions :
        /\ Len(tasks[s]) = 2
        /\ tasks[s][1].st = "posting" /\ tasks[s][1].posts = 1
        /\ tasks[s][2].st = "created" /\ tasks[s][2].posts = 0

\* C23: in a room named exactly "interview-" the session resolves the empty
\* id and goes on as a session without id does: no GET, no context, the agent
\* built with the default prompt, and no task and no POST for any committed
\* turn (Spec).
C23_EmptyIdIsNoId ==
    \A s \in Sessions :
        (sess[s].pc # "idle" /\ sess[s].room = Prefix)
        => /\ sess[s].interview_id = Some(<<>>)
           /\ sess[s].pc = "active"
           /\ sess[s].gets = 0
           /\ sess[s].interview_context = NoContext
           /\ sess[s].agent.built
           /\ sess[s].agent.instructions =
                 DEFAULT_INTERVIEW_PROMPT \o VOICE_ADAPTATION_PROMPT
           /\ background_tasks[s] = {}
           /\ \A n \in 1..Len(tasks[s]) :
                 tasks[s][n].st = "none" /\ tasks[s][n].posts = 0

\* two turns with text were committed in the room "interview-" and neither
\* got a task
C23_Witness ==
    \E s \in Sessions :
        /\ sess[s].room = Prefix /\ sess[s].pc = "active"
        /\ Len(tasks[s]) = 2
        /\ \A n \in 1..2 : Flatten(tasks[s][n].item.content) # <<>>
        /\ \A n \in 1..2 : tasks[s][n].st = "none"

====
